---------------------------- MODULE Spec2Model ----------------------------
(***************************************************************************)
(* Model of src/utils/interning.rs: the process-wide string interner       *)
(* (Atom / Interner behind an RwLock) and its SlabAllocator<usize>.        *)
(*                                                                         *)
(* Memory is byte addressed.  mem[a] is the byte at address a, up to the    *)
(* highest address written so far; a byte that was never written reads as  *)
(* Uninit (so no read of it equals any value).  The memory manager          *)
(* (Vec::with_capacity + mem::forget) is a bump of heapTop: buffers are    *)
(* never freed, so they are pairwise disjoint, and placing them back to    *)
(* back makes any overrun of one buffer land in its neighbour.             *)
(*                                                                         *)
(* Spec      : threads calling Atom::new / try_new / as_str /              *)
(*             get_discarded_bytes on the global registry.                 *)
(* SpecAlloc : a stand-alone SlabAllocator<usize> driven by alloc(len)     *)
(*             calls, as in tests::allocator.                              *)
(* SpecAllocMem : the same allocator driven by alloc_and_test_mem(size),   *)
(*             which also fills the range it got and sums it back.         *)
(***************************************************************************)
EXTENDS Integers, Sequences, FiniteSets, TLC

VARIABLES
    allocator,  \* Interner.allocator : [start, end, lost]
    strings,    \* Interner.strings   : set of [key : slice, atom : ptr]
    mem,        \* memory             : sequence of bytes, indexed by address
    heapTop,    \* first address the memory manager has not handed out
    lock,       \* INTERNED_STRINGS   : [writer, readers]
    pc,         \* per thread: position inside the call it is executing
    arg,        \* per thread: the &str argument of the call, NoText outside one
    buf,        \* per thread: local buf of alloc_interned_string
    ret,        \* per thread: value the call is about to return
    view,       \* per thread: the as_str call in progress: its self, the &str it returns
    calls,      \* number of calls started so far (bounded by MaxCalls)
    returned,   \* history: &str -> set of Atoms returned by completed Atom::new
    blocks,     \* history: set of [ptr, text : &str], one per alloc_interned_string run
    log         \* history: sequence of [len, ptr, free] per SlabAllocator::alloc

vars == <<allocator, strings, mem, heapTop, lock, pc, arg, buf, ret, view, calls,
          returned, blocks, log>>

---------------------------------------------------------------------------
(* Bounds and program constants *)

NumThreads == 2
MaxCalls == 3
MaxAllocs == 5
MaxTests == 3

SLAB_ALLOC_SIZE == 4096
WordSize == 8
ByteRange == 256

Threads == 1 .. NumThreads
NoThread == 0
Null == 0
None == -2
NoText == "none"
NoView == [self |-> Null, str |-> [ptr |-> Null, len |-> 0]]
Uninit == -1
OutOfRange == -3
IntBytes == WordSize \div 2
HeapBase == WordSize

(* The &str values callers pass.  Each is named; its text is the sequence   *)
(* of its UTF-8 bytes, and the interner reads nothing of it but as_bytes    *)
(* and len.  "slab" needs slab_size - 1 words, "large" needs slab_size.     *)
Fill(n, b) == [i \in 1 .. n |-> b]
TEmpty == << >>
TA == <<97>>
TB == <<98>>
TSlab == Fill(SLAB_ALLOC_SIZE - 2 * WordSize, 120)
TLarge == Fill(SLAB_ALLOC_SIZE - WordSize, 121)
Refs == {"empty", "a", "b", "slab", "large"}
as_bytes(s) ==
    CASE s = "empty" -> TEmpty
      [] s = "a"     -> TA
      [] s = "b"     -> TB
      [] s = "slab"  -> TSlab
      [] s = "large" -> TLarge
str_len(s) == Len(as_bytes(s))

(* Request sizes of the stand-alone allocator. *)
Lens == {1, 2, 100, 200, 511, 512, 513}

---------------------------------------------------------------------------
(* Raw memory *)

Load(m, a) == IF a \in 1 .. Len(m) THEN m[a] ELSE Uninit

Uninits(n) == [i \in 1 .. n |-> Uninit]

(* ptr::write / ptr::copy_nonoverlapping of bytes to address a *)
StoreBytes(m, a, bytes) ==
    LET n == Len(bytes)
        head == IF a - 1 <= Len(m) THEN SubSeq(m, 1, a - 1)
                ELSE m \o Uninits(a - 1 - Len(m))
        tail == IF a + n <= Len(m) THEN SubSeq(m, a + n, Len(m)) ELSE << >>
    IN  head \o bytes \o tail

(* usize <-> its WordSize bytes in memory (little endian). *)
RECURSIVE ByteOf(_, _)
ByteOf(n, i) == IF i = 0 THEN n % ByteRange ELSE ByteOf(n \div ByteRange, i - 1)

WordBytes(n) == [i \in 1 .. WordSize |-> ByteOf(n, i - 1)]

RECURSIVE WordOf(_, _, _)
WordOf(m, a, i) ==
    IF i = IntBytes THEN 0
    ELSE Load(m, a + i) + ByteRange * WordOf(m, a, i + 1)

(* A word with an unwritten byte reads as Uninit; a word above the range   *)
(* of the model's integers (no length of the model is) reads as OutOfRange. *)
ReadWord(m, a) ==
    IF \E i \in 0 .. (WordSize - 1) : Load(m, a + i) = Uninit
    THEN Uninit
    ELSE IF \/ \E i \in IntBytes .. (WordSize - 1) : Load(m, a + i) # 0
            \/ Load(m, a + IntBytes - 1) >= ByteRange \div 2
    THEN OutOfRange
    ELSE WordOf(m, a, 0)

(* A &str is a slice [ptr, len]; its value is whatever the bytes are now. *)
SliceBytes(m, sl) ==
    IF sl.len < 0 THEN <<sl.len>>
    ELSE IF sl.ptr >= 1 /\ sl.ptr + sl.len - 1 <= Len(m)
    THEN SubSeq(m, sl.ptr, sl.ptr + sl.len - 1)
    ELSE [i \in 1 .. sl.len |-> Load(m, sl.ptr + i - 1)]

(* str == str: equal lengths, then equal bytes *)
SliceEq(m, sl, s) ==
    /\ sl.len = str_len(s)
    /\ SliceBytes(m, sl) = as_bytes(s)

SliceSame(m, a, b) ==
    /\ a.len = b.len
    /\ a.len >= 0
    /\ SliceBytes(m, a) = SliceBytes(m, b)

---------------------------------------------------------------------------
(* SlabAllocator<usize> *)

div_round_down(a, b) == a \div b

div_round_up(a, b) == a \div b + (IF a % b = 0 THEN 0 ELSE 1)

SlabAllocator_new == [start |-> Null, end |-> Null, lost |-> 0]

get_discarded_bytes(al) == al.lost

slab_free_size(al) == (al.end - al.start) \div WordSize

slab_size == div_round_up(SLAB_ALLOC_SIZE, WordSize)

(* Vec::with_capacity(n) followed by mem::forget: a fresh buffer of n words. *)
VecWithCapacity(top, n) == [ptr |-> top, top |-> top + n * WordSize]

(* alloc with the cursor left where it was *)
alloc_no_advance(al, top, len) ==
    IF len >= slab_size
    THEN LET v == VecWithCapacity(top, len)
         IN  [al |-> al, top |-> v.top, ptr |-> v.ptr]
    ELSE LET v == VecWithCapacity(top, slab_size)
             al1 == IF len > slab_free_size(al)
                    THEN [start |-> v.ptr,
                          end   |-> v.ptr + slab_size * WordSize,
                          lost  |-> al.lost + slab_free_size(al)]
                    ELSE al
             top1 == IF len > slab_free_size(al) THEN v.top ELSE top
         IN  [al |-> al1, top |-> top1, ptr |-> al1.start]

(* alloc retiring the slab also when the request fits it exactly *)
alloc_retire_on_exact_fit(al, top, len) ==
    IF len >= slab_size
    THEN LET v == VecWithCapacity(top, len)
         IN  [al |-> al, top |-> v.top, ptr |-> v.ptr]
    ELSE LET v == VecWithCapacity(top, slab_size)
             al1 == IF len >= slab_free_size(al)
                    THEN [start |-> v.ptr,
                          end   |-> v.ptr + slab_size * WordSize,
                          lost  |-> al.lost + slab_free_size(al)]
                    ELSE al
             top1 == IF len >= slab_free_size(al) THEN v.top ELSE top
         IN  [al  |-> [al1 EXCEPT !.start = al1.start + len * WordSize],
              top |-> top1,
              ptr |-> al1.start]

(* alloc carving a request that is one element more than the free suffix *)
alloc_overrun(al, top, len) ==
    IF len >= slab_size
    THEN LET v == VecWithCapacity(top, len)
         IN  [al |-> al, top |-> v.top, ptr |-> v.ptr]
    ELSE LET v == VecWithCapacity(top, slab_size)
             al1 == IF len > slab_free_size(al) + 1
                    THEN [start |-> v.ptr,
                          end   |-> v.ptr + slab_size * WordSize,
                          lost  |-> al.lost + slab_free_size(al)]
                    ELSE al
             top1 == IF len > slab_free_size(al) + 1 THEN v.top ELSE top
         IN  [al  |-> [al1 EXCEPT !.start = al1.start + len * WordSize],
              top |-> top1,
              ptr |-> al1.start]

(* alloc giving up the current slab when it serves a large request *)
alloc_large_retires(al, top, len) ==
    IF len >= slab_size
    THEN LET v == VecWithCapacity(top, len)
         IN  [al  |-> [start |-> Null, end |-> Null,
                       lost  |-> al.lost + slab_free_size(al)],
              top |-> v.top,
              ptr |-> v.ptr]
    ELSE LET v == VecWithCapacity(top, slab_size)
             al1 == IF len > slab_free_size(al)
                    THEN [start |-> v.ptr,
                          end   |-> v.ptr + slab_size * WordSize,
                          lost  |-> al.lost + slab_free_size(al)]
                    ELSE al
             top1 == IF len > slab_free_size(al) THEN v.top ELSE top
         IN  [al  |-> [al1 EXCEPT !.start = al1.start + len * WordSize],
              top |-> top1,
              ptr |-> al1.start]

(* alloc counting the whole slab as lost when it retires one *)
alloc_lost_whole_slab(al, top, len) ==
    IF len >= slab_size
    THEN LET v == VecWithCapacity(top, len)
         IN  [al |-> al, top |-> v.top, ptr |-> v.ptr]
    ELSE LET v == VecWithCapacity(top, slab_size)
             al1 == IF len > slab_free_size(al)
                    THEN [start |-> v.ptr,
                          end   |-> v.ptr + slab_size * WordSize,
                          lost  |-> al.lost + slab_size]
                    ELSE al
             top1 == IF len > slab_free_size(al) THEN v.top ELSE top
         IN  [al  |-> [al1 EXCEPT !.start = al1.start + len * WordSize],
              top |-> top1,
              ptr |-> al1.start]

(* alloc sending a request of exactly slab_size to the slab *)
alloc_large_above_capacity(al, top, len) ==
    IF len > slab_size
    THEN LET v == VecWithCapacity(top, len)
         IN  [al |-> al, top |-> v.top, ptr |-> v.ptr]
    ELSE LET v == VecWithCapacity(top, slab_size)
             al1 == IF len > slab_free_size(al)
                    THEN [start |-> v.ptr,
                          end   |-> v.ptr + slab_size * WordSize,
                          lost  |-> al.lost + slab_free_size(al)]
                    ELSE al
             top1 == IF len > slab_free_size(al) THEN v.top ELSE top
         IN  [al  |-> [al1 EXCEPT !.start = al1.start + len * WordSize],
              top |-> top1,
              ptr |-> al1.start]

(* alloc(&mut self, len): the new allocator, the new heap top, the pointer. *)
alloc(al, top, len) ==
    IF len >= slab_size
    THEN LET v == VecWithCapacity(top, len)
         IN  [al |-> al, top |-> v.top, ptr |-> v.ptr]
    ELSE LET v == VecWithCapacity(top, slab_size)
             al1 == IF len > slab_free_size(al)
                    THEN [start |-> v.ptr,
                          end   |-> v.ptr + slab_size * WordSize,
                          lost  |-> al.lost + slab_free_size(al)]
                    ELSE al
             top1 == IF len > slab_free_size(al) THEN v.top ELSE top
         IN  [al  |-> [al1 EXCEPT !.start = al1.start + len * WordSize],
              top |-> top1,
              ptr |-> al1.start]

LogEntry(al, len, ptr) == [len |-> len, ptr |-> ptr, free |-> slab_free_size(al)]

---------------------------------------------------------------------------
(* Interner *)

(* Interner::extract_interned_string / Atom::as_str: the slice behind an Atom. *)
extract_interned_string(m, ptr) == [ptr |-> ptr + WordSize, len |-> ReadWord(m, ptr)]

(* a lookup whose key comparison stops at the length *)
get_if_interned_by_len(strs, m, s) ==
    LET hits == {e \in strs : e.key.len = str_len(s)}
    IN  IF hits = {} THEN None ELSE (CHOOSE e \in hits : TRUE).atom

(* HashMap::get(s).map(|a| *a) *)
get_if_interned(strs, m, s) ==
    LET hits == {e \in strs : SliceEq(m, e.key, s)}
    IN  IF hits = {} THEN None ELSE (CHOOSE e \in hits : TRUE).atom

(* HashMap::insert(key, atom): an equal key keeps its entry and takes the value. *)
insert(strs, m, key, atom) ==
    LET same == {e \in strs : SliceSame(m, e.key, key)}
    IN  IF same = {} THEN strs \cup {[key |-> key, atom |-> atom]}
        ELSE (strs \ same) \cup {[key |-> e.key, atom |-> atom] : e \in same}

(* RwLock: write() is granted with no holder, read() with no writer; both  *)
(* return Err on a poisoned lock, and the callers unwrap() the result.  The *)
(* two *_unguarded variants grant the lock whoever holds it, and           *)
(* CanWrite_ignoring_readers grants write() while readers hold it.         *)
CanWrite_unguarded(l) == TRUE
CanWrite_ignoring_readers(l) == l.writer = NoThread
CanWrite(l) == l.writer = NoThread /\ l.readers = {}
CanRead_unguarded(l) == TRUE
CanRead(l) == l.writer = NoThread

---------------------------------------------------------------------------
Init ==
    /\ allocator = SlabAllocator_new
    /\ strings = {}
    /\ mem = << >>
    /\ heapTop = HeapBase
    /\ lock = [writer |-> NoThread, readers |-> {}, poisoned |-> FALSE]
    /\ pc = [t \in Threads |-> "idle"]
    /\ arg = [t \in Threads |-> NoText]
    /\ buf = [t \in Threads |-> Null]
    /\ ret = [t \in Threads |-> None]
    /\ view = [t \in Threads |-> NoView]
    /\ calls = 0
    /\ returned = [s \in Refs |-> {}]
    /\ blocks = {}
    /\ log = << >>

registry == <<allocator, strings, mem, heapTop>>
history == <<returned, blocks, log>>

Goto(t, l) == pc' = [pc EXCEPT ![t] = l]

(* --- Atom::new(s) ----------------------------------------------------- *)
new_call(t, s) ==
    /\ pc[t] = "idle" /\ calls < MaxCalls
    /\ calls' = calls + 1
    /\ arg' = [arg EXCEPT ![t] = s]
    /\ Goto(t, "new_lock")
    /\ UNCHANGED <<view, registry, lock, buf, ret, history>>

new_lock(t) ==
    /\ pc[t] = "new_lock" /\ CanWrite(lock) /\ ~lock.poisoned
    /\ lock' = [lock EXCEPT !.writer = t]
    /\ Goto(t, "intern_get")
    /\ UNCHANGED <<view, registry, arg, buf, ret, calls, history>>

(* intern without its lookup: every call creates a Block *)
intern_get_no_lookup(t) ==
    /\ pc[t] = "intern_get"
    /\ Goto(t, "string_alloc")
    /\ UNCHANGED <<view, registry, lock, arg, buf, ret, calls, history>>

intern_get(t) ==
    /\ pc[t] = "intern_get"
    /\ LET hit == get_if_interned(strings, mem, arg[t])
       IN  IF hit # None
           THEN /\ ret' = [ret EXCEPT ![t] = hit]
                /\ Goto(t, "new_unlock")
           ELSE /\ ret' = ret
                /\ Goto(t, "string_alloc")
    /\ UNCHANGED <<view, registry, lock, arg, buf, calls, history>>

(* the request without the word of the length header *)
string_alloc_no_header(t) ==
    /\ pc[t] = "string_alloc"
    /\ LET n == div_round_up(str_len(arg[t]), WordSize)
           r == alloc(allocator, heapTop, n)
       IN  /\ allocator' = r.al
           /\ heapTop' = r.top
           /\ buf' = [buf EXCEPT ![t] = r.ptr]
           /\ log' = Append(log, LogEntry(allocator, n, r.ptr))
    /\ Goto(t, "string_write_len")
    /\ UNCHANGED <<view, strings, mem, lock, arg, ret, calls, returned, blocks>>

string_alloc(t) ==
    /\ pc[t] = "string_alloc"
    /\ LET n == 1 + div_round_up(str_len(arg[t]), WordSize)
           r == alloc(allocator, heapTop, n)
       IN  /\ allocator' = r.al
           /\ heapTop' = r.top
           /\ buf' = [buf EXCEPT ![t] = r.ptr]
           /\ log' = Append(log, LogEntry(allocator, n, r.ptr))
    /\ Goto(t, "string_write_len")
    /\ UNCHANGED <<view, strings, mem, lock, arg, ret, calls, returned, blocks>>

string_write_len(t) ==
    /\ pc[t] = "string_write_len"
    /\ mem' = StoreBytes(mem, buf[t], WordBytes(str_len(arg[t])))
    /\ Goto(t, "string_copy")
    /\ UNCHANGED <<view, allocator, strings, heapTop, lock, arg, buf, ret, calls, history>>

(* the copy without buf.offset(1): the bytes land on the header *)
string_copy_at_base(t) ==
    /\ pc[t] = "string_copy"
    /\ mem' = StoreBytes(mem, buf[t], as_bytes(arg[t]))
    /\ blocks' = blocks \cup {[ptr |-> buf[t], text |-> arg[t]]}
    /\ Goto(t, "intern_insert")
    /\ UNCHANGED <<view, allocator, strings, heapTop, lock, arg, buf, ret, calls, returned, log>>

string_copy(t) ==
    /\ pc[t] = "string_copy"
    /\ mem' = StoreBytes(mem, buf[t] + WordSize, as_bytes(arg[t]))
    /\ blocks' = blocks \cup {[ptr |-> buf[t], text |-> arg[t]]}
    /\ Goto(t, "intern_insert")
    /\ UNCHANGED <<view, allocator, strings, heapTop, lock, arg, buf, ret, calls, returned, log>>

(* the insert taking read() for atom.as_str() under the write guard *)
intern_insert_locking(t) ==
    /\ pc[t] = "intern_insert"
    /\ CanRead(lock)
    /\ strings' = insert(strings, mem, extract_interned_string(mem, buf[t]), buf[t])
    /\ ret' = [ret EXCEPT ![t] = buf[t]]
    /\ Goto(t, "new_unlock")
    /\ UNCHANGED <<view, allocator, mem, heapTop, lock, arg, buf, calls, history>>

(* the insert recording the address of the text in place of the Atom *)
intern_insert_payload_ptr(t) ==
    /\ pc[t] = "intern_insert"
    /\ strings' = insert(strings, mem, extract_interned_string(mem, buf[t]), buf[t] + WordSize)
    /\ ret' = [ret EXCEPT ![t] = buf[t]]
    /\ Goto(t, "new_unlock")
    /\ UNCHANGED <<view, allocator, mem, heapTop, lock, arg, buf, calls, history>>

intern_insert(t) ==
    /\ pc[t] = "intern_insert"
    /\ strings' = insert(strings, mem, extract_interned_string(mem, buf[t]), buf[t])
    /\ ret' = [ret EXCEPT ![t] = buf[t]]
    /\ Goto(t, "new_unlock")
    /\ UNCHANGED <<view, allocator, mem, heapTop, lock, arg, buf, calls, history>>

new_unlock(t) ==
    /\ pc[t] = "new_unlock"
    /\ lock' = [lock EXCEPT !.writer = NoThread]
    /\ returned' = [returned EXCEPT ![arg[t]] = @ \cup {ret[t]}]
    /\ arg' = [arg EXCEPT ![t] = NoText]
    /\ buf' = [buf EXCEPT ![t] = Null]
    /\ ret' = [ret EXCEPT ![t] = None]
    /\ Goto(t, "idle")
    /\ UNCHANGED <<view, registry, calls, blocks, log>>

(* --- Atom::try_new(s) ------------------------------------------------- *)
try_new_call(t, s) ==
    /\ pc[t] = "idle" /\ calls < MaxCalls
    /\ calls' = calls + 1
    /\ arg' = [arg EXCEPT ![t] = s]
    /\ Goto(t, "try_lock")
    /\ UNCHANGED <<view, registry, lock, buf, ret, history>>

(* try_new going on with a poisoned lock *)
try_new_lock_ignoring_poison(t) ==
    /\ pc[t] = "try_lock" /\ CanRead(lock)
    /\ lock' = [lock EXCEPT !.readers = @ \cup {t}]
    /\ Goto(t, "try_get")
    /\ UNCHANGED <<view, registry, arg, buf, ret, calls, history>>

(* try_new taking the lock with write() *)
try_new_lock_write(t) ==
    /\ pc[t] = "try_lock" /\ CanWrite(lock) /\ ~lock.poisoned
    /\ lock' = [lock EXCEPT !.writer = t]
    /\ Goto(t, "try_get")
    /\ UNCHANGED <<view, registry, arg, buf, ret, calls, history>>

try_new_lock(t) ==
    /\ pc[t] = "try_lock" /\ CanRead(lock) /\ ~lock.poisoned
    /\ lock' = [lock EXCEPT !.readers = @ \cup {t}]
    /\ Goto(t, "try_get")
    /\ UNCHANGED <<view, registry, arg, buf, ret, calls, history>>

try_new_get(t) ==
    /\ pc[t] = "try_get"
    /\ ret' = [ret EXCEPT ![t] = get_if_interned(strings, mem, arg[t])]
    /\ Goto(t, "try_unlock")
    /\ UNCHANGED <<view, registry, lock, arg, buf, calls, history>>

try_new_unlock(t) ==
    /\ pc[t] = "try_unlock"
    /\ lock' = [lock EXCEPT !.readers = @ \ {t}]
    /\ arg' = [arg EXCEPT ![t] = NoText]
    /\ ret' = [ret EXCEPT ![t] = None]
    /\ Goto(t, "idle")
    /\ UNCHANGED <<view, registry, buf, calls, history>>

(* --- Atom::get_discarded_bytes() -------------------------------------- *)
gdb_call(t) ==
    /\ pc[t] = "idle" /\ calls < MaxCalls
    /\ calls' = calls + 1
    /\ Goto(t, "gdb_lock")
    /\ UNCHANGED <<view, registry, lock, arg, buf, ret, history>>

gdb_lock(t) ==
    /\ pc[t] = "gdb_lock" /\ CanRead(lock) /\ ~lock.poisoned
    /\ lock' = [lock EXCEPT !.readers = @ \cup {t}]
    /\ Goto(t, "gdb_read")
    /\ UNCHANGED <<view, registry, arg, buf, ret, calls, history>>

gdb_read(t) ==
    /\ pc[t] = "gdb_read"
    /\ ret' = [ret EXCEPT ![t] = get_discarded_bytes(allocator)]
    /\ Goto(t, "gdb_unlock")
    /\ UNCHANGED <<view, registry, lock, arg, buf, calls, history>>

gdb_unlock(t) ==
    /\ pc[t] = "gdb_unlock"
    /\ lock' = [lock EXCEPT !.readers = @ \ {t}]
    /\ ret' = [ret EXCEPT ![t] = None]
    /\ Goto(t, "idle")
    /\ UNCHANGED <<view, registry, arg, buf, calls, history>>

(* --- Atom::as_str(self): no lock -------------------------------------- *)
Published == UNION {returned[s] : s \in Refs}

as_str(t, h) ==
    /\ pc[t] = "idle" /\ calls < MaxCalls
    /\ h \in Published
    /\ calls' = calls + 1
    /\ view' = [view EXCEPT ![t] = [self |-> h, str |-> extract_interned_string(mem, h)]]
    /\ Goto(t, "as_str_ret")
    /\ UNCHANGED <<registry, lock, arg, buf, ret, history>>

as_str_ret(t) ==
    /\ pc[t] = "as_str_ret"
    /\ view' = [view EXCEPT ![t] = NoView]
    /\ Goto(t, "idle")
    /\ UNCHANGED <<registry, lock, arg, buf, ret, calls, history>>

Next ==
    \E t \in Threads :
        \/ \E s \in Refs : new_call(t, s)
        \/ new_lock(t)
        \/ intern_get(t)
        \/ string_alloc(t)
        \/ string_write_len(t)
        \/ string_copy(t)
        \/ intern_insert(t)
        \/ new_unlock(t)
        \/ \E s \in Refs : try_new_call(t, s)
        \/ try_new_lock(t)
        \/ try_new_get(t)
        \/ try_new_unlock(t)
        \/ gdb_call(t)
        \/ gdb_lock(t)
        \/ gdb_read(t)
        \/ gdb_unlock(t)
        \/ \E h \in Published : as_str(t, h)
        \/ as_str_ret(t)

Spec == Init /\ [][Next]_vars

(* the positions of a thread inside the calls of impl Atom *)
Pcs == {"idle", "new_lock", "intern_get", "string_alloc", "string_write_len",
        "string_copy", "intern_insert", "new_unlock", "try_lock", "try_get",
        "try_unlock", "gdb_lock", "gdb_read", "gdb_unlock", "as_str_ret"}

(* a step of a call thread t has started, to position l: everything but the *)
(* calls themselves                                                         *)
Proceed(t) ==
    \E l \in Pcs :
        /\ pc' = [pc EXCEPT ![t] = l]
        /\ \/ new_lock(t)
           \/ intern_get(t)
           \/ string_alloc(t)
           \/ string_write_len(t)
           \/ string_copy(t)
           \/ intern_insert(t)
           \/ new_unlock(t)
           \/ try_new_lock(t)
           \/ try_new_get(t)
           \/ try_new_unlock(t)
           \/ gdb_lock(t)
           \/ gdb_read(t)
           \/ gdb_unlock(t)
           \/ as_str_ret(t)

(* Spec with every thread scheduled fairly: a thread that can take its next *)
(* step, lock acquisition included, takes it.                               *)
FairSpec == Init /\ [][Next]_vars /\ \A t \in Threads : WF_pc(Proceed(t))

---------------------------------------------------------------------------
(* Stand-alone allocator, as driven by tests::allocator *)

alloc_call(len) ==
    /\ Len(log) < MaxAllocs
    /\ LET r == alloc(allocator, heapTop, len)
       IN  /\ allocator' = r.al
           /\ heapTop' = r.top
           /\ log' = Append(log, LogEntry(allocator, len, r.ptr))
    /\ UNCHANGED <<view, strings, mem, lock, pc, arg, buf, ret, calls, returned, blocks>>

NextAlloc == \E len \in Lens : alloc_call(len)

SpecAlloc == Init /\ [][NextAlloc]_vars

---------------------------------------------------------------------------
(* Panics.  A thread that panics inside Atom::new unwinds through the write *)
(* guard, which poisons the lock as it is dropped; write() and read() on a  *)
(* poisoned lock return Err and unwrap() panics in turn (the guard inside   *)
(* the Err is dropped, a read guard or a guard of an already panicking      *)
(* thread poisons nothing more).                                            *)

intern_panic(t) ==
    /\ pc[t] \in {"intern_get", "string_alloc", "string_write_len", "string_copy",
                  "intern_insert"}
    /\ lock.writer = t
    /\ lock' = [lock EXCEPT !.writer = NoThread, !.poisoned = TRUE]
    /\ Goto(t, "panicked")
    /\ UNCHANGED <<view, registry, arg, buf, ret, calls, history>>

new_lock_poisoned(t) ==
    /\ pc[t] = "new_lock" /\ CanWrite(lock) /\ lock.poisoned
    /\ Goto(t, "panicked")
    /\ UNCHANGED <<view, registry, lock, arg, buf, ret, calls, history>>

try_new_lock_poisoned(t) ==
    /\ pc[t] = "try_lock" /\ CanRead(lock) /\ lock.poisoned
    /\ Goto(t, "panicked")
    /\ UNCHANGED <<view, registry, lock, arg, buf, ret, calls, history>>

gdb_lock_poisoned(t) ==
    /\ pc[t] = "gdb_lock" /\ CanRead(lock) /\ lock.poisoned
    /\ Goto(t, "panicked")
    /\ UNCHANGED <<view, registry, lock, arg, buf, ret, calls, history>>

NextPoison ==
    \/ Next
    \/ \E t \in Threads :
          \/ intern_panic(t)
          \/ new_lock_poisoned(t)
          \/ try_new_lock_poisoned(t)
          \/ gdb_lock_poisoned(t)

SpecPoison == Init /\ [][NextPoison]_vars

---------------------------------------------------------------------------
(* tests::allocator::alloc_and_test_mem *)

(* the bytes of a slice of n usize after `for i in 0..size { slice[i] = i }` *)
TestImage(n) ==
    [k \in 1 .. n * WordSize |-> WordBytes((k - 1) \div WordSize)[((k - 1) % WordSize) + 1]]

Images == [n \in Lens |-> TestImage(n)]

(* slice.iter().cloned().sum() over the words i with lo <= i <= hi of a slice at ptr *)
RECURSIVE SumWords(_, _, _, _)
SumWords(m, ptr, lo, hi) ==
    IF lo > hi THEN 0
    ELSE IF lo = hi THEN ReadWord(m, ptr + lo * WordSize)
    ELSE LET mid == (lo + hi) \div 2
         IN  SumWords(m, ptr, lo, mid) + SumWords(m, ptr, mid + 1, hi)

alloc_and_test_mem(size) ==
    /\ Len(log) < MaxTests
    /\ LET r == alloc(allocator, heapTop, size)
           m1 == StoreBytes(mem, r.ptr, Images[size])
       IN  /\ allocator' = r.al
           /\ heapTop' = r.top
           /\ mem' = m1
           /\ log' = Append(log, [len  |-> size,
                                  ptr  |-> r.ptr,
                                  free |-> slab_free_size(allocator),
                                  sum  |-> SumWords(m1, r.ptr, 0, size - 1)])
    /\ UNCHANGED <<view, strings, lock, pc, arg, buf, ret, calls, returned, blocks>>

NextAllocMem == \E size \in Lens : alloc_and_test_mem(size)

SpecAllocMem == Init /\ [][NextAllocMem]_vars

---------------------------------------------------------------------------
(* Vocabulary of the properties *)

NewPcs == {"new_lock", "intern_get", "string_alloc", "string_write_len",
           "string_copy", "intern_insert", "new_unlock"}
CriticalPcs == NewPcs \ {"new_lock"}
TryPcs == {"try_lock", "try_get", "try_unlock"}
TryHeldPcs == {"try_get", "try_unlock"}

SameText(s1, s2) == as_bytes(s1) = as_bytes(s2)

(* decode(h) = s, read from memory as it is now *)
DecodesTo(h, s) == SliceEq(mem, extract_interned_string(mem, h), s)

(* the Atoms completed Atom::new calls have returned for a text equal to s *)
ReturnedFor(s) == UNION {returned[r] : r \in {r \in Refs : SameText(r, s)}}

BlocksFor(s) == {b \in blocks : SameText(b.text, s)}

RegistryUnchanged ==
    /\ strings' = strings
    /\ allocator' = allocator
    /\ heapTop' = heapTop
    /\ mem' = mem
    /\ blocks' = blocks
    /\ log' = log
    /\ get_discarded_bytes(allocator') = get_discarded_bytes(allocator)

Steps(t) == pc'[t] # pc[t]

---------------------------------------------------------------------------
(* C1: the Atom an Atom::new(s) call is about to return decodes to s, and   *)
(* it equals every Atom an earlier completed Atom::new returned for a text  *)
(* equal to s.                                                              *)
C1_InternRoundTrip ==
    \A t \in Threads :
        pc[t] = "new_unlock" =>
            /\ DecodesTo(ret[t], arg[t])
            /\ \A h \in ReturnedFor(arg[t]) : ret[t] = h

C1_Witness ==
    \E t \in Threads :
        /\ pc[t] = "new_unlock" /\ arg[t] = "empty"
        /\ returned["empty"] # {} /\ returned["a"] # {}

(* C2: Atoms returned for different texts differ and Atoms returned for     *)
(* equal texts are equal; two different Atoms never decode to equal text.   *)
C2_DistinctTexts ==
    /\ \A s1, s2 \in Refs : \A h1 \in returned[s1] : \A h2 \in returned[s2] :
           (h1 = h2) <=> SameText(s1, s2)
    /\ \A h1, h2 \in Published :
           h1 # h2 => ~SliceSame(mem, extract_interned_string(mem, h1),
                                      extract_interned_string(mem, h2))

C2_Witness ==
    /\ returned["a"] # {} /\ returned["b"] # {} /\ returned["large"] # {}

(* C3: at most one Block is ever created per text, all completed calls for *)
(* a text got the same Atom, and a thread between the lookup and the       *)
(* return of Atom::new is the lock's writer with no reader inside.         *)
C3_OneBlockPerText ==
    /\ \A s \in Refs : Cardinality({b.ptr : b \in BlocksFor(s)}) <= 1
    /\ \A s \in Refs : Cardinality(ReturnedFor(s)) <= 1
    /\ \A t \in Threads :
           pc[t] \in CriticalPcs => lock.writer = t /\ lock.readers = {}

C3_Witness ==
    \E t1, t2 \in Threads :
        /\ t1 # t2
        /\ pc[t1] = "new_unlock" /\ buf[t1] # Null
        /\ pc[t2] = "new_lock" /\ SameText(arg[t1], arg[t2])

(* C4: every entry of the mapping belongs to a created Block; its key and  *)
(* the decoding of its Atom are both that Block's text; no two entries     *)
(* decode to equal text.                                                   *)
C4_MappingConsistent ==
    /\ \A e \in strings :
           \E b \in blocks :
               /\ b.ptr = e.atom
               /\ SliceEq(mem, e.key, b.text)
               /\ DecodesTo(e.atom, b.text)
    /\ \A e1, e2 \in strings :
           e1 # e2 => ~SliceSame(mem, extract_interned_string(mem, e1.atom),
                                      extract_interned_string(mem, e2.atom))

C4_Witness ==
    /\ Cardinality(strings) = 3
    /\ \E e \in strings : e.key.len = str_len("large")

(* C5: what Atom::try_new(s) is about to return is None when no Atom::new  *)
(* of an equal text has completed, and is the Atom those calls returned    *)
(* otherwise.                                                              *)
C5_TryNew ==
    \A t \in Threads :
        pc[t] = "try_unlock" =>
            /\ ReturnedFor(arg[t]) = {} => ret[t] = None
            /\ \A h \in ReturnedFor(arg[t]) : ret[t] = h

C5_Witness ==
    \E t \in Threads :
        /\ pc[t] = "try_unlock" /\ ret[t] # None
        /\ Cardinality(strings) >= 2

(* C6: every Atom a completed Atom::new(s) returned decodes to s in every  *)
(* state, also while another thread is in the middle of writing a Block;   *)
(* as_str reads it without being a reader or the writer of the lock.       *)
C6_PublishedStable ==
    /\ \A s \in Refs : \A h \in returned[s] : DecodesTo(h, s)
    /\ \A t \in Threads :
           pc[t] = "as_str_ret" =>
               /\ t \notin lock.readers /\ lock.writer # t
               /\ \E s \in Refs : view[t].self \in returned[s] /\ SliceEq(mem, view[t].str, s)

C6_Witness ==
    \E t1, t2 \in Threads :
        /\ pc[t1] = "as_str_ret"
        /\ pc[t2] = "string_copy"

(* C7: a step of Atom::new(s) taken while the mapping has an entry for s   *)
(* changes neither the mapping, the allocator, the memory nor the value of *)
(* get_discarded_bytes, and creates no Block.                              *)
C7_InternHitFrame ==
    [][\A t \in Threads :
          (/\ pc[t] \in NewPcs
           /\ Steps(t)
           /\ get_if_interned(strings, mem, arg[t]) # None) => RegistryUnchanged]_vars

C7_Witness ==
    \E t \in Threads :
        /\ pc[t] = "new_unlock" /\ buf[t] = Null /\ ret[t] # None

(* C8: no step of Atom::try_new changes the mapping, the allocator or the  *)
(* memory, and while it holds the lock it is a reader, never the writer.   *)
C8_TryNewFrame ==
    /\ [][\A t \in Threads : (pc[t] \in TryPcs /\ Steps(t)) => RegistryUnchanged]_vars
    /\ [](\A t \in Threads :
             pc[t] \in TryHeldPcs => t \in lock.readers /\ lock.writer # t)

C8_Witness ==
    \E t1, t2 \in Threads :
        /\ pc[t1] = "try_unlock" /\ ret[t1] # None
        /\ pc[t2] = "try_unlock" /\ ret[t2] = None

---------------------------------------------------------------------------
(* Stand-alone allocator: vocabulary *)

Retires(e) == e.len < slab_size /\ e.len > e.free

(* sum, over the retirements logged, of the free elements of the retired slab *)
RECURSIVE WasteElems(_)
WasteElems(lg) ==
    IF lg = << >> THEN 0
    ELSE (IF Retires(Head(lg)) THEN Head(lg).free ELSE 0) + WasteElems(Tail(lg))

LensOf(lg) == [i \in 1 .. Len(lg) |-> lg[i].len]

TestLens == <<100, 200, slab_size, slab_size, slab_size - 1>>

(* C9: get_discarded_bytes() is the waste in bytes: the free elements of   *)
(* the retired slabs, summed, times the element width.                     *)
C9_DiscardedInBytes ==
    get_discarded_bytes(allocator) = WasteElems(log) * WordSize

(* C10: alloc(len) with 1 <= len < slab_size and f free elements: if       *)
(* len <= f, f - len remain free and get_discarded_bytes() is unchanged;   *)
(* if len > f, get_discarded_bytes() grows by f and slab_size - len remain *)
(* free.  After 100, 200, slab_size, slab_size, slab_size - 1 from fresh,  *)
(* get_discarded_bytes() = slab_size - 300 and 1 element is free.          *)
C10_SmallAlloc ==
    /\ [][Len(log') = Len(log) + 1 =>
            LET len == log'[Len(log')].len
                f == slab_free_size(allocator)
            IN  (1 <= len /\ len < slab_size) =>
                    IF len <= f
                    THEN /\ slab_free_size(allocator') = f - len
                         /\ get_discarded_bytes(allocator') = get_discarded_bytes(allocator)
                    ELSE /\ slab_free_size(allocator') = slab_size - len
                         /\ get_discarded_bytes(allocator') = get_discarded_bytes(allocator) + f
         ]_vars
    /\ [](LensOf(log) = TestLens =>
             /\ get_discarded_bytes(allocator) = slab_size - 300
             /\ slab_free_size(allocator) = 1)

C10_Witness ==
    /\ LensOf(log) = TestLens
    /\ get_discarded_bytes(allocator) = slab_size - 300
    /\ slab_free_size(allocator) = 1

(* the alloc call of a step that logs one, and what it returned *)
AllocStep == Len(log') = Len(log) + 1
LastLen == log'[Len(log')].len
LastPtr == log'[Len(log')].ptr

(* C11: alloc(len) with len >= slab_size, len = slab_size included, returns *)
(* a dedicated buffer of len elements fresh from the memory manager and     *)
(* leaves start, end, the free suffix and lost as they were, from the       *)
(* fresh allocator as from one with a partly used slab.                     *)
C11_LargeAllocFrame ==
    [][(AllocStep /\ LastLen >= slab_size) =>
          /\ allocator' = allocator
          /\ slab_free_size(allocator') = slab_free_size(allocator)
          /\ get_discarded_bytes(allocator') = get_discarded_bytes(allocator)
          /\ LastPtr = heapTop
          /\ heapTop' = heapTop + LastLen * WordSize
      ]_vars

C11_Witness ==
    /\ LensOf(log) = <<slab_size, 100, slab_size>>
    /\ slab_free_size(allocator) = slab_size - 100
    /\ allocator.start # Null

(* the range of bytes a logged alloc call returned *)
RangeLo(e) == e.ptr
RangeHi(e) == e.ptr + e.len * WordSize

(* C12: the ranges any two alloc calls returned are disjoint; a range from *)
(* the small path lies between the start and the end of the slab that is   *)
(* active when it is carved; every range filled with 0 .. N-1 still holds  *)
(* exactly that in every later state, and summed N*(N-1)/2 when read back. *)
C12_RangesKept ==
    /\ [](\A i, j \in 1 .. Len(log) :
             i < j => \/ RangeHi(log[i]) <= RangeLo(log[j])
                      \/ RangeHi(log[j]) <= RangeLo(log[i]))
    /\ [][(AllocStep /\ LastLen < slab_size) =>
             /\ allocator'.end - slab_size * WordSize <= LastPtr
             /\ LastPtr + LastLen * WordSize <= allocator'.end
         ]_vars
    /\ [](\A i \in 1 .. Len(log) :
             /\ SliceBytes(mem, [ptr |-> log[i].ptr, len |-> log[i].len * WordSize])
                    = Images[log[i].len]
             /\ 2 * log[i].sum = log[i].len * (log[i].len - 1))

C12_Witness ==
    /\ LensOf(log) = <<100, slab_size, slab_size - 1>>
    /\ log[3].sum = ((slab_size - 1) * (slab_size - 2)) \div 2
    /\ log[3].free = slab_size - 100

(* C13: start <= end in every state and the free suffix never exceeds      *)
(* slab_size; before the first alloc both start and end are null.           *)
C13_CursorWithinSlab ==
    /\ allocator.start <= allocator.end
    /\ allocator.end - allocator.start <= slab_size * WordSize
    /\ slab_free_size(allocator) <= slab_size
    /\ (allocator.start = Null) = (allocator.end = Null)
    /\ Len(log) = 0 => allocator.start = Null /\ allocator.end = Null

C13_Witness ==
    /\ LensOf(log) = <<slab_size - 1, 1, slab_size + 1>>
    /\ allocator.start = allocator.end
    /\ allocator.start # Null

(* a step that replaces the current slab, a step that changes lost *)
SlabReplaced == allocator'.end # allocator.end
LostChanged == get_discarded_bytes(allocator') # get_discarded_bytes(allocator)

(* C14: the slab is replaced, and lost changes, only in an alloc(len) with  *)
(* len < slab_size and len > the free suffix; every other step leaves both  *)
(* alone; lost never decreases.                                             *)
C14_RetireOnlyWhenShort ==
    /\ [][(SlabReplaced \/ LostChanged) =>
             /\ AllocStep
             /\ LastLen < slab_size
             /\ LastLen > slab_free_size(allocator)
         ]_vars
    /\ [][get_discarded_bytes(allocator') >= get_discarded_bytes(allocator)]_vars

C14_Witness ==
    /\ LensOf(log) = <<200, slab_size, slab_size - 1>>
    /\ get_discarded_bytes(allocator) = slab_size - 200
    /\ slab_free_size(allocator) = 1

(* the alloc calls logged that took the small path *)
SmallCount(lg) == Cardinality({i \in 1 .. Len(lg) : lg[i].len < slab_size})

(* C20: a retirement adds to lost strictly less than the len requested,     *)
(* hence at most slab_size - 2; the first alloc on a fresh allocator adds   *)
(* 0; after k small-path allocs lost <= k * (slab_size - 2).                *)
C20_WasteBound ==
    /\ [][AllocStep =>
             LET added == get_discarded_bytes(allocator') - get_discarded_bytes(allocator)
             IN  /\ SlabReplaced => added < LastLen /\ added <= slab_size - 2
                 /\ ~SlabReplaced => added = 0
                 /\ Len(log) = 0 => added = 0
         ]_vars
    /\ [](get_discarded_bytes(allocator) <= SmallCount(log) * (slab_size - 2))

C20_Witness ==
    /\ LensOf(log) = <<2, slab_size - 1>>
    /\ get_discarded_bytes(allocator) = slab_size - 2

(* the pcs of alloc_interned_string after allocator.alloc has returned buf *)
WritingPcs == {"string_write_len", "string_copy", "intern_insert"}

(* ceil(n / WordSize) *)
CeilWords(n) == (n + WordSize - 1) \div WordSize

(* the bytes of memory below lo and from hi on, memory taken up to the heap top *)
BytesOutside(m, lo, hi) ==
    LET full == m \o Uninits(heapTop - 1 - Len(m))
    IN  SubSeq(full, 1, lo - 1) \o SubSeq(full, hi, heapTop - 1)

(* C15: for a text of len bytes that is not interned, Atom::new asks alloc  *)
(* for exactly 1 + ceil(len / WordSize) elements (1 for the empty text);    *)
(* the header and the len bytes it writes lie inside the range alloc        *)
(* returned, whether the request went to the slab or to a buffer of its own. *)
C15_BlockFitsRequest ==
    /\ [](\A t \in Threads : pc[t] \in WritingPcs =>
             LET n == str_len(arg[t])
                 e == log[Len(log)]
             IN  /\ e.ptr = buf[t]
                 /\ e.len = 1 + CeilWords(n)
                 /\ (n = 0 => e.len = 1)
                 /\ WordSize + n <= e.len * WordSize
                 /\ e.len * WordSize - WordSize >= n
                 /\ buf[t] + e.len * WordSize <= heapTop
                 /\ e.len < slab_size =>
                        /\ allocator.end - slab_size * WordSize <= buf[t]
                        /\ buf[t] + e.len * WordSize <= allocator.end
                 /\ pc[t] = "intern_insert" =>
                        /\ ReadWord(mem, buf[t]) = n
                        /\ SliceBytes(mem, [ptr |-> buf[t] + WordSize, len |-> n])
                               = as_bytes(arg[t]))
    /\ [][\A t \in Threads : (pc[t] \in {"string_write_len", "string_copy"} /\ Steps(t)) =>
             LET lo == buf[t]
                 hi == buf[t] + log[Len(log)].len * WordSize
             IN  BytesOutside(mem', lo, hi) = BytesOutside(mem, lo, hi)
         ]_vars

C15_Witness ==
    \E t \in Threads :
        /\ pc[t] = "intern_insert"
        /\ arg[t] = "large"
        /\ log[Len(log)].len = slab_size
        /\ \E i \in 1 .. Len(log) : log[i].len = 1
        /\ \E i \in 1 .. Len(log) : log[i].len = slab_size - 1

(* the pcs at which a call holds the guard of read() *)
GdbHeldPcs == {"gdb_read", "gdb_unlock"}
ReadHeldPcs == TryHeldPcs \cup GdbHeldPcs

(* C16: Atom::new holds the lock exclusively from before its lookup until   *)
(* after its insert; Atom::try_new and Atom::get_discarded_bytes hold it    *)
(* shared; a writer never holds it together with any other holder, readers  *)
(* may hold it together.                                                    *)
C16_LockModes ==
    /\ [](\A t \in Threads :
             /\ (pc[t] \in CriticalPcs) = (lock.writer = t)
             /\ (pc[t] \in ReadHeldPcs) = (t \in lock.readers)
             /\ pc[t] \in CriticalPcs =>
                    \A u \in Threads \ {t} : pc[u] \notin CriticalPcs \cup ReadHeldPcs)
    /\ [](lock.writer # NoThread => lock.readers = {})
    /\ [][\A t \in Threads :
             /\ (Steps(t) /\ pc[t] \in CriticalPcs \ {"new_unlock"}) =>
                    lock'.writer = t /\ lock.writer = t
             /\ (Steps(t) /\ pc[t] \in {"try_get", "gdb_read"}) =>
                    t \in lock.readers /\ lock.writer = NoThread /\ lock' = lock
         ]_vars
    /\ [][~RegistryUnchanged => lock.writer # NoThread /\ lock' = lock]_vars

C16_Witness ==
    \E t, u \in Threads :
        /\ t # u
        /\ pc[t] = "try_get"
        /\ pc[u] = "gdb_read"
        /\ lock.readers = {t, u}
        /\ lock.writer = NoThread
        /\ strings # {}

(* C19: an Atom::try_new(s) that runs while other threads run Atom::new(s) *)
(* returns None, and then no Atom::new(s) has returned yet, or the one Atom *)
(* Atom::new(s) returns: an Atom the mapping holds, whose block is written, *)
(* header and text, and decodes to s.                                       *)
C19_TryNewSeesWholeBlocks ==
    \A t \in Threads : pc[t] = "try_unlock" =>
        IF ret[t] = None
        THEN /\ ReturnedFor(arg[t]) = {}
             /\ \A e \in strings : ~SliceEq(mem, e.key, arg[t])
        ELSE /\ \E e \in strings : e.atom = ret[t] /\ e.key.ptr = ret[t] + WordSize
             /\ \E b \in BlocksFor(arg[t]) : b.ptr = ret[t]
             /\ ReadWord(mem, ret[t]) = str_len(arg[t])
             /\ DecodesTo(ret[t], arg[t])
             /\ ReturnedFor(arg[t]) = {ret[t]}
             /\ \A u \in Threads : pc[u] \in WritingPcs => buf[u] # ret[t]

C19_Witness ==
    \E t, u \in Threads :
        /\ pc[t] = "try_unlock"
        /\ ret[t] = None
        /\ pc[u] = "new_lock"
        /\ SameText(arg[u], arg[t])
        /\ strings # {}

(* a try_new that got the Atom of a text while an Atom::new of an equal text waits *)
C19_WitnessHit ==
    \E t, u \in Threads :
        /\ pc[t] = "try_unlock"
        /\ ret[t] # None
        /\ pc[u] = "new_lock"
        /\ SameText(arg[u], arg[t])

(* the pcs at which a call waits for the lock *)
LockPcs == {"new_lock", "try_lock", "gdb_lock"}

(* C17: a call can wait only where it acquires the lock; no call acquires   *)
(* the lock while it holds it, and the insert of Atom::new, which decodes   *)
(* the new Atom, takes no lock; with the threads scheduled fairly every     *)
(* call that has started releases the lock and returns.                     *)
C17_CallsReturn ==
    /\ [](\A t \in Threads :
             /\ pc[t] \in LockPcs => lock.writer # t /\ t \notin lock.readers
             /\ pc[t] \notin LockPcs \cup {"idle"} => ENABLED Proceed(t))
    /\ [][\A t \in Threads :
             (Steps(t) /\ pc[t] = "intern_insert") => lock' = lock /\ lock.writer = t
         ]_vars
    /\ \A t \in Threads :
          (pc[t] # "idle") ~> (pc[t] = "idle" /\ lock.writer # t /\ t \notin lock.readers)

C17_Witness ==
    \E t, u \in Threads :
        /\ pc[t] = "new_lock"
        /\ pc[u] = "gdb_unlock"
        /\ ~ENABLED Proceed(t)
        /\ calls = MaxCalls
        /\ Published # {}

(* C18: once a thread has panicked inside Atom::new with the write guard   *)
(* held, the lock is poisoned for good; from then on no Atom::new,          *)
(* Atom::try_new or Atom::get_discarded_bytes gets past its lock            *)
(* acquisition: the call panics there, returns nothing, and neither reads   *)
(* nor changes the mapping, the allocator or the memory.                    *)
C18_PoisonedForGood ==
    /\ [][\A t \in Threads :
             (pc[t] \in CriticalPcs /\ pc'[t] = "panicked") =>
                 lock'.poisoned /\ lock'.writer = NoThread
         ]_vars
    /\ [][lock.poisoned =>
             /\ lock'.poisoned
             /\ RegistryUnchanged
             /\ returned' = returned
             /\ \A t \in Threads :
                    /\ (Steps(t) /\ pc[t] \in LockPcs) => pc'[t] = "panicked"
                    /\ (Steps(t) /\ pc[t] = "panicked") => FALSE
         ]_vars
    /\ [](lock.poisoned =>
             /\ lock.writer = NoThread /\ lock.readers = {}
             /\ \A t \in Threads :
                    /\ pc[t] \notin CriticalPcs \cup ReadHeldPcs
                    /\ ret[t] = None)

C18_Witness ==
    \E t, u \in Threads :
        /\ lock.poisoned
        /\ pc[t] = "panicked" /\ buf[t] # Null
        /\ pc[u] = "panicked" /\ buf[u] = Null
        /\ strings # {}
        /\ calls = MaxCalls

===========================================================================
